---- MODULE Spec2Model ----
(***************************************************************************)
(* Model of molecular_descriptor_generator.py: the script that builds a    *)
(* per-molecule feature matrix from repeated stochastic 3D conformer       *)
(* generation (six methods), a filtered mordred descriptor set, pandas     *)
(* describe() statistics, a 2D descriptor matrix and the input table.      *)
(*                                                                         *)
(* The script is one straight-line program; pc names the block about to    *)
(* run.  An uncaught Python exception moves pc to "abortado" and records   *)
(* the exception and its source line in error.                             *)
(*                                                                         *)
(* Conventions.                                                            *)
(*  - A DataFrame with a RangeIndex is [columns, filas]: filas[i+1] is the  *)
(*    row labelled i.                                                      *)
(*  - A cell is [t, v, d]: t = "num" a float v/d, "nan" a missing float,   *)
(*    "err" a mordred Missing/Error object, "raiz" the square root of v/d, *)
(*    "txt" a text cell of the input table, "NA" the string "NA".          *)
(*  - A descriptor value is opaque to the script; the model tags it with   *)
(*    the conformer it was computed from (Valor), on a grid of multiples   *)
(*    of 4 so that quartile interpolation stays in the integers.           *)
(***************************************************************************)
EXTENDS Integers, Sequences, FiniteSets, TLC

\* ------------------------------------------------------------------ bounds
MaxMoleculas == 4
MaxIteraciones == 2
MaxFallosEmbed == 1
MaxExponente == 5

VARIABLES
    pc,                                \* block of the script about to run
    error,                             \* the uncaught exception, "" if none
    lista_smiles,                      \* df_original["SMILES"]
    numero_iteraciones,                \* the configured repetition count
    descriptores_motor,                \* calculador_temporal.descriptors, by name
    moleculas_base,                    \* = moleculas_para_conformaciones
    conformaciones_uff,                \* result of the start-up UFF generation
    indices_moleculas,
    descriptores_filtrados,
    resultados_descriptores,           \* one table per finished iteration
    estadisticas_distribucion,         \* one summary table per reduced molecule
    nombres_columnas_finales,
    matriz_descriptores_estadisticos,
    matriz_descriptores_2d,
    matriz_numerica,
    dataset_final,
    fallos_embed                       \* embeddings that did not converge so far

vars == << pc, error, lista_smiles, numero_iteraciones, descriptores_motor,
           moleculas_base, conformaciones_uff, indices_moleculas,
           descriptores_filtrados, resultados_descriptores,
           estadisticas_distribucion, nombres_columnas_finales,
           matriz_descriptores_estadisticos, matriz_descriptores_2d,
           matriz_numerica, dataset_final, fallos_embed >>

\* ------------------------------------------------------------------- cells
Num(x) == [t |-> "num", v |-> x, d |-> 1]
Frac(x, y) == [t |-> "num", v |-> x, d |-> y]
Raiz(x, y) == [t |-> "raiz", v |-> x, d |-> y]
NaN == [t |-> "nan", v |-> 0, d |-> 1]
Err == [t |-> "err", v |-> 0, d |-> 1]
Txt(i) == [t |-> "txt", v |-> i, d |-> 1]
NA == [t |-> "NA", v |-> 0, d |-> 1]

Max(a, b) == IF a >= b THEN a ELSE b

\* -------------------------------------------------------------- DataFrames
DataFrame(cols, filas) == [columns |-> cols, filas |-> filas]

DataFrameVacio == DataFrame(<< >>, << >>)

\* A row of df reindexed to nfilas rows: rows the frame lacks are all-NaN.
FilaReindexada(df, i) ==
    IF i <= Len(df.filas) THEN df.filas[i]
    ELSE [c \in 1..Len(df.columns) |-> NaN]

\* DataFrame.add_suffix
add_suffix(df, sufijo) ==
    DataFrame([c \in 1..Len(df.columns) |-> df.columns[c] \o sufijo], df.filas)

\* An inner join on the row labels: rows one frame lacks are lost.
concat_axis1_inner(a, b) ==
    LET n == IF Len(a.filas) <= Len(b.filas) THEN Len(a.filas) ELSE Len(b.filas)
    IN  DataFrame(a.columns \o b.columns,
                  [i \in 1..n |-> a.filas[i] \o b.filas[i]])

\* pd.concat([a, b], axis=1): outer join on the row labels of two RangeIndex
\* frames; the shorter frame is padded with NaN rows at the end.
concat_axis1(a, b) ==
    LET n == Max(Len(a.filas), Len(b.filas))
    IN  DataFrame(a.columns \o b.columns,
                  [i \in 1..n |-> FilaReindexada(a, i) \o FilaReindexada(b, i)])

\* ------------------------------------------------------- input and catalog
\* The kinds of line notation an input row can hold: one that parses and has
\* every force-field parameter, one whose molecule lacks UFF parameters, one
\* whose molecule lacks MMFF parameters, and one that does not parse.
ClasesSmiles == {"ok", "sinUFF", "sinMMFF", "invalido"}

\* The descriptor engine's catalog: names the allow-list has and names it
\* lacks, in the engine's order (which is not the allow-list's order).
CatalogosMotor ==
    { << "ABC", "TPSA", "nAtom" >>,
      << "GRAVH", "SpAbs_A", "GRAV" >> }

nombres_descriptores_3d ==
    <<
       "PNSA1", "PNSA2", "PNSA3", "PNSA4", "PNSA5", "PPSA1", "PPSA2", "PPSA3",
       "PPSA4", "PPSA5", "DPSA1", "DPSA2", "DPSA3", "DPSA4", "DPSA5", "FNSA1",
       "FNSA2", "FNSA3", "FNSA4", "FNSA5", "FPSA1", "FPSA2", "FPSA3", "FPSA4",
       "FPSA5", "WNSA1", "WNSA2", "WNSA3", "WNSA4", "WNSA5", "WPSA1", "WPSA2",
       "WPSA3", "WPSA4", "WPSA5", "RNCS", "RPCS", "TASA", "TPSA", "RASA",
       "RPSA", "GeomDiameter", "GeomRadius", "GeomShapeIndex", "GeomPetitjeanIndex", "GRAV", "GRAVH", "GRAVp",
       "GRAVHp", "Mor01", "Mor02", "Mor03", "Mor04", "Mor05", "Mor06", "Mor07",
       "Mor08", "Mor09", "Mor10", "Mor11", "Mor12", "Mor13", "Mor14", "Mor15",
       "Mor16", "Mor17", "Mor18", "Mor19", "Mor20", "Mor21", "Mor22", "Mor23",
       "Mor24", "Mor25", "Mor26", "Mor27", "Mor28", "Mor29", "Mor30", "Mor31",
       "Mor32", "Mor01m", "Mor02m", "Mor03m", "Mor04m", "Mor05m", "Mor06m", "Mor07m",
       "Mor08m", "Mor09m", "Mor10m", "Mor11m", "Mor12m", "Mor13m", "Mor14m", "Mor15m",
       "Mor16m", "Mor17m", "Mor18m", "Mor19m", "Mor20m", "Mor21m", "Mor22m", "Mor23m",
       "Mor24m", "Mor25m", "Mor26m", "Mor27m", "Mor28m", "Mor29m", "Mor30m", "Mor31m",
       "Mor32m", "Mor01v", "Mor02v", "Mor03v", "Mor04v", "Mor05v", "Mor06v", "Mor07v",
       "Mor08v", "Mor09v", "Mor10v", "Mor11v", "Mor12v", "Mor13v", "Mor14v", "Mor15v",
       "Mor16v", "Mor17v", "Mor18v", "Mor19v", "Mor20v", "Mor21v", "Mor22v", "Mor23v",
       "Mor24v", "Mor25v", "Mor26v", "Mor27v", "Mor28v", "Mor29v", "Mor30v", "Mor31v",
       "Mor32v", "Mor01se", "Mor02se", "Mor03se", "Mor04se", "Mor05se", "Mor06se", "Mor07se",
       "Mor08se", "Mor09se", "Mor10se", "Mor11se", "Mor12se", "Mor13se", "Mor14se", "Mor15se",
       "Mor16se", "Mor17se", "Mor18se", "Mor19se", "Mor20se", "Mor21se", "Mor22se", "Mor23se",
       "Mor24se", "Mor25se", "Mor26se", "Mor27se", "Mor28se", "Mor29se", "Mor30se", "Mor31se",
       "Mor32se", "Mor01p", "Mor02p", "Mor03p", "Mor04p", "Mor05p", "Mor06p", "Mor07p",
       "Mor08p", "Mor09p", "Mor10p", "Mor11p", "Mor12p", "Mor13p", "Mor14p", "Mor15p",
       "Mor16p", "Mor17p", "Mor18p", "Mor19p", "Mor20p", "Mor21p", "Mor22p", "Mor23p",
       "Mor24p", "Mor25p", "Mor26p", "Mor27p", "Mor28p", "Mor29p", "Mor30p", "Mor31p",
       "Mor32p", "MOMI-X", "MOMI-Y", "MOMI-Z", "PBF"
    >>

\* Python `x in lista`
EnLista(x, lista) == \E i \in 1..Len(lista) : lista[i] = x

\* Chem.MolFromSmiles: None for a notation that does not parse.
None == [idx |-> -1, clase |-> "None"]

MolFromSmiles(smile, i) ==
    IF smile = "invalido" THEN None ELSE [idx |-> i, clase |-> smile]

UFFHasAllMoleculeParams(mol) == mol.clase # "sinUFF"

MMFFHasAllMoleculeParams(mol) == mol.clase # "sinMMFF"

\* The six methods in the order the iteration concatenates their tables.
Metodos == << "ETKDGv2", "ETKDGv1", "ETDG", "KDG", "UFF", "MMFF" >>

\* The suffix the iteration gives a method's columns: UFF takes the MMFF one.
SufijoRepetido(metodo) ==
    CASE metodo = "ETKDGv2" -> ""
      [] metodo = "ETKDGv1" -> "_ETKDG"
      [] metodo = "ETDG" -> "_ETDG"
      [] metodo = "KDG" -> "_KDG"
      [] metodo = "UFF" -> "_DGmmff"
      [] metodo = "MMFF" -> "_DGmmff"

\* The suffix the iteration gives a method's columns.
Sufijo(metodo) ==
    CASE metodo = "ETKDGv2" -> ""
      [] metodo = "ETKDGv1" -> "_ETKDG"
      [] metodo = "ETDG" -> "_ETDG"
      [] metodo = "KDG" -> "_KDG"
      [] metodo = "UFF" -> "_DGuff"
      [] metodo = "MMFF" -> "_DGmmff"

IndiceMetodo(metodo) == CHOOSE k \in 1..Len(Metodos) : Metodos[k] = metodo

\* ------------------------------------------------------ conformer generators
\* A generator returns a list of conformers or raises.  A conformer records
\* the molecule it embeds, the method, the repetition that asked for it and
\* whether EmbedMolecule converged (emb); fallan is the set of
\* <<method, molecule>> embeddings that do not converge in this block.
Retorno(lista) == [ok |-> TRUE, lista |-> lista, err |-> ""]

Excepcion(e) == [ok |-> FALSE, lista |-> << >>, err |-> e]

Conformero(mol, metodo, rep, fallan) ==
    [mol |-> mol.idx, metodo |-> metodo, rep |-> rep,
     emb |-> << metodo, mol.idx >> \notin fallan]

Primero(S) == CHOOSE i \in S : \A j \in S : i <= j

\* The body the two force-field generators share: AddHs, a basic embedding,
\* the parameter check, the optimisation.  linea holds the source lines of
\* AddHs and of the optimisation in the generator that is running.
generar_campo_de_fuerza(lista_moleculas, metodo, rep, fallan, linea) ==
    LET TieneParametros(mol) ==
            IF metodo = "UFF" THEN UFFHasAllMoleculeParams(mol)
            ELSE MMFFHasAllMoleculeParams(mol)
        Lanza(i) ==
            \/ lista_moleculas[i] = None
            \/ /\ TieneParametros(lista_moleculas[i])
               /\ << metodo, lista_moleculas[i].idx >> \in fallan
        lanzan == {i \in 1..Len(lista_moleculas) : Lanza(i)}
        optimizadas == SelectSeq(lista_moleculas, TieneParametros)
    IN  IF lanzan # {}
        THEN IF lista_moleculas[Primero(lanzan)] = None
             THEN Excepcion("ArgumentError:" \o linea[1])
             ELSE Excepcion("ValueError:" \o linea[2])
        ELSE Retorno([k \in 1..Len(optimizadas) |->
                         Conformero(optimizadas[k], metodo, rep, fallan)])

\* generar_conformacion_uff: AddHs raises on None; a molecule without all UFF
\* parameters is left out of the list; UFFOptimizeMolecule raises on a
\* molecule whose embedding left no conformer.
generar_conformacion_uff(lista_moleculas, rep, fallan) ==
    generar_campo_de_fuerza(lista_moleculas, "UFF", rep, fallan, << "64", "74" >>)

generar_conformacion_mmff(lista_moleculas, rep, fallan) ==
    generar_campo_de_fuerza(lista_moleculas, "MMFF", rep, fallan, << "95", "105" >>)

\* The distance-geometry generators keep every molecule, embedded or not.
generar_geometria_distancias(lista_moleculas, metodo, rep, fallan, linea) ==
    IF \E i \in 1..Len(lista_moleculas) : lista_moleculas[i] = None
    THEN Excepcion("ArgumentError:" \o linea)
    ELSE Retorno([k \in 1..Len(lista_moleculas) |->
                     Conformero(lista_moleculas[k], metodo, rep, fallan)])

generar_conformacion_etdg(lista_moleculas, rep, fallan) ==
    generar_geometria_distancias(lista_moleculas, "ETDG", rep, fallan, "126")

generar_conformacion_kdg(lista_moleculas, rep, fallan) ==
    generar_geometria_distancias(lista_moleculas, "KDG", rep, fallan, "148")

generar_conformacion_etkdg(lista_moleculas, version, rep, fallan) ==
    IF version = 1
    THEN generar_geometria_distancias(lista_moleculas, "ETKDGv1", rep, fallan, "172")
    ELSE IF version = 2
    THEN generar_geometria_distancias(lista_moleculas, "ETKDGv2", rep, fallan, "172")
    ELSE Excepcion("None:181")

Generar(metodo, lista_moleculas, rep, fallan) ==
    CASE metodo = "ETKDGv2" -> generar_conformacion_etkdg(lista_moleculas, 2, rep, fallan)
      [] metodo = "ETKDGv1" -> generar_conformacion_etkdg(lista_moleculas, 1, rep, fallan)
      [] metodo = "ETDG" -> generar_conformacion_etdg(lista_moleculas, rep, fallan)
      [] metodo = "KDG" -> generar_conformacion_kdg(lista_moleculas, rep, fallan)
      [] metodo = "UFF" -> generar_conformacion_uff(lista_moleculas, rep, fallan)
      [] metodo = "MMFF" -> generar_conformacion_mmff(lista_moleculas, rep, fallan)

\* -------------------------------------------------------- descriptor engine
\* The value of the d-th resolved descriptor on a conformer.
Valor(conformero, d) ==
    4 * (1000 * conformero.mol + 100 * IndiceMetodo(conformero.metodo)
         + 10 * (conformero.rep + 1) + d)

\* calculador_3d.pandas: one row per conformer of the list, in list order; a
\* conformer without coordinates gets mordred's Missing object in every cell.
calculador_3d_pandas(conformaciones) ==
    DataFrame(descriptores_filtrados,
              [i \in 1..Len(conformaciones) |->
                  [d \in 1..Len(descriptores_filtrados) |->
                      IF conformaciones[i].emb
                      THEN Num(Valor(conformaciones[i], d))
                      ELSE Err]])

\* One pass of the filter loop that puts the descriptor first.
AgregarAlFrente(filtrados, descriptor, permitidos) ==
    IF EnLista(descriptor, permitidos)
    THEN << descriptor >> \o filtrados
    ELSE filtrados

\* One pass of the filter loop (lines 276-277).
AgregarSiPermitido(filtrados, descriptor, permitidos) ==
    IF EnLista(descriptor, permitidos)
    THEN Append(filtrados, descriptor)
    ELSE filtrados

RECURSIVE FiltrarDesde(_, _, _, _)
FiltrarDesde(motor, permitidos, i, filtrados) ==
    IF i > Len(motor) THEN filtrados
    ELSE FiltrarDesde(motor, permitidos, i + 1,
                      AgregarSiPermitido(filtrados, motor[i], permitidos))

\* The filter loop over the engine's descriptors (lines 274-277).
FiltrarDescriptores(motor, permitidos) ==
    FiltrarDesde(motor, permitidos, 1, << >>)

\* A range one longer than the start-up UFF list.
RangoDeMas(conformaciones) == [k \in 1..(Len(conformaciones) + 1) |-> k - 1]

\* list(range(len(conformaciones_uff))) (line 208)
RangoIndices(conformaciones) == [k \in 1..Len(conformaciones) |-> k - 1]

\* ------------------------------------------------------------ the iteration
\* The sets of at most k embeddings that fail to converge.
RECURSIVE SubconjuntosHasta(_, _)
SubconjuntosHasta(S, k) ==
    IF k <= 0 THEN { {} }
    ELSE LET previos == SubconjuntosHasta(S, k - 1)
         IN  previos \cup {T \cup {x} : T \in previos, x \in S}

IndicesParseados ==
    {moleculas_base[i].idx : i \in {j \in 1..Len(moleculas_base) :
                                       moleculas_base[j] # None}}

FallosPosibles(metodos) ==
    SubconjuntosHasta(metodos \X IndicesParseados, MaxFallosEmbed - fallos_embed)

ResultadoMetodo(k, rep, fallan) == Generar(Metodos[k], moleculas_base, rep, fallan)

\* resultados_descriptores[iteracion] after the first k methods of the body.
RECURSIVE TablaIteracion(_, _, _)
TablaIteracion(k, rep, fallan) ==
    LET df == calculador_3d_pandas(ResultadoMetodo(k, rep, fallan).lista)
    IN  IF k = 1 THEN df
        ELSE concat_axis1(TablaIteracion(k - 1, rep, fallan),
                          add_suffix(df, Sufijo(Metodos[k])))

\* --------------------------------------------------------------- statistics
\* valores_molecula: the row of the molecule index in every iteration's
\* table, one row per iteration (lines 345-349).  pandas lays the columns of
\* every molecule's frame out in one and the same order; the model keeps the
\* order of the iteration tables.
valores_molecula(indice_molecula) ==
    DataFrame(resultados_descriptores[1].columns,
              [it \in 1..Len(resultados_descriptores) |->
                  resultados_descriptores[it].filas[indice_molecula + 1]])

\* .iloc[indice] raises IndexError past the last row of a table.
IlocEnRango(indice_molecula) ==
    \A it \in 1..Len(resultados_descriptores) :
        indice_molecula < Len(resultados_descriptores[it].filas)

RECURSIVE Insertar(_, _)
Insertar(x, ordenados) ==
    IF ordenados = << >> THEN << x >>
    ELSE IF x <= Head(ordenados) THEN << x >> \o ordenados
    ELSE << Head(ordenados) >> \o Insertar(x, Tail(ordenados))

RECURSIVE Ordenar(_)
Ordenar(xs) == IF xs = << >> THEN << >> ELSE Insertar(Head(xs), Ordenar(Tail(xs)))

RECURSIVE Suma(_)
Suma(xs) == IF xs = << >> THEN 0 ELSE Head(xs) + Suma(Tail(xs))

\* The valid (non-missing) values of column c, sorted.
ValoresValidos(df, c) ==
    LET celdas == [r \in 1..Len(df.filas) |-> df.filas[r][c]]
        EsValida(celda) == celda.t = "num"
        validas == SelectSeq(celdas, EsValida)
    IN  Ordenar([k \in 1..Len(validas) |-> validas[k].v])

\* The k-th quartile by linear interpolation between the two nearest ranks.
Percentil(xs, k) ==
    IF xs = << >> THEN NaN
    ELSE LET pos == k * (Len(xs) - 1)
             lo == (pos \div 4) + 1
             fr == pos % 4
         IN  IF fr = 0 THEN Num(xs[lo])
             ELSE Num(xs[lo] + ((xs[lo + 1] - xs[lo]) \div 4) * fr)

\* The rows of describe() for a numeric column.
IndiceDescribe == << "count", "mean", "std", "min", "25%", "50%", "75%", "max" >>

Estadistica(etiqueta, xs) ==
    LET n == Len(xs)
        cuadrados == [k \in 1..n |-> xs[k] * xs[k]]
    IN  CASE etiqueta = "count" -> Num(n)
          [] etiqueta = "mean" -> IF n = 0 THEN NaN ELSE Frac(Suma(xs), n)
          [] etiqueta = "std" ->
                IF n <= 1 THEN NaN
                ELSE Raiz(n * Suma(cuadrados) - Suma(xs) * Suma(xs), n * (n - 1))
          [] etiqueta = "min" -> IF n = 0 THEN NaN ELSE Num(xs[1])
          [] etiqueta = "25%" -> Percentil(xs, 1)
          [] etiqueta = "50%" -> Percentil(xs, 2)
          [] etiqueta = "75%" -> Percentil(xs, 3)
          [] etiqueta = "max" -> IF n = 0 THEN NaN ELSE Num(xs[n])

\* The columns describe() summarises: the numeric ones.  A column that holds
\* a mordred error object in any of its rows is an object column and is left
\* out.  (The force-field columns never hold one, so a frame always has a
\* numeric column and describe() never falls back to its object summary.)
ColumnasNumericas(df) ==
    LET EsNumerica(c) == \A r \in 1..Len(df.filas) : df.filas[r][c].t # "err"
    IN  SelectSeq([c \in 1..Len(df.columns) |-> c], EsNumerica)

\* DataFrame.describe(): a table with one row per statistic (index) and one
\* column per numeric column of df.
describe(df) ==
    LET numericas == ColumnasNumericas(df)
    IN  [index |-> IndiceDescribe,
         columns |-> [c \in 1..Len(numericas) |-> df.columns[numericas[c]]],
         filas |-> [s \in 1..Len(IndiceDescribe) |->
                      [c \in 1..Len(numericas) |->
                          Estadistica(IndiceDescribe[s],
                                      ValoresValidos(df, numericas[c]))]]]

\* tabla[1:]: a slice that drops only the count row.
RebanarDesdeUno(tabla, desde) ==
    [index |-> SubSeq(tabla.index, 2, Len(tabla.index)),
     columns |-> tabla.columns,
     filas |-> SubSeq(tabla.filas, 2, Len(tabla.filas))]

\* tabla[desde:]: the rows from position desde (0-based) on.
Rebanar(tabla, desde) ==
    [index |-> SubSeq(tabla.index, desde + 1, Len(tabla.index)),
     columns |-> tabla.columns,
     filas |-> SubSeq(tabla.filas, desde + 1, Len(tabla.filas))]

\* valores_molecula.describe()[3:] (lines 352 and 392)
estadisticas_molecula(indice_molecula) ==
    Rebanar(describe(valores_molecula(indice_molecula)), 3)

\* The name loops of lines 371-376: descriptor outer, statistic inner.
GenerarNombres(muestra_estadisticas) ==
    LET S == Len(muestra_estadisticas.index)
        C == Len(muestra_estadisticas.columns)
    IN  [p \in 1..(S * C) |->
            muestra_estadisticas.index[((p - 1) % S) + 1]
            \o muestra_estadisticas.columns[((p - 1) \div S) + 1]]

\* values.reshape(1, filas * columnas, order='F'): column after column.
fila_estadisticas(tabla) ==
    LET S == Len(tabla.index)
        C == Len(tabla.columns)
    IN  [p \in 1..(S * C) |-> tabla.filas[((p - 1) % S) + 1][((p - 1) \div S) + 1]]

\* matriz.append(fila, ignore_index=True): the columns are the union of the
\* integer labels of both; cells either side lacks are NaN.
AgregarFila(matriz, fila) ==
    LET ancho == Max(Len(matriz.columns), Len(fila))
        Rellenar(f) == [p \in 1..ancho |-> IF p <= Len(f) THEN f[p] ELSE NaN]
    IN  DataFrame([p \in 1..ancho |-> p - 1],
                  [i \in 1..(Len(matriz.filas) + 1) |->
                      IF i <= Len(matriz.filas) THEN Rellenar(matriz.filas[i])
                      ELSE Rellenar(fila)])

\* ------------------------------------------------------ 2D matrix, cleaning
\* The cells the 2D engine can put in a floating-point descriptor: an error
\* object, or the magnitude 10^-e for e up to MaxExponente.
RECURSIVE Potencia10(_)
Potencia10(e) == IF e = 0 THEN 1 ELSE 10 * Potencia10(e - 1)

Celdas2D == {Err} \cup {Frac(1, Potencia10(e)) : e \in 0..MaxExponente}

\* calculador_2d.pandas(moleculas_2d): one row per molecule of the list, an
\* atom count and a floating-point descriptor; slogp is what the engine gives
\* the first molecule for the latter.
calculador_2d_pandas(moleculas, slogp) ==
    DataFrame(<< "nAtom", "SLogP" >>,
              [i \in 1..Len(moleculas) |->
                  << Num(4 * (moleculas[i].idx + 1)),
                     IF i = 1 THEN slogp ELSE Num(1) >>])

\* Text is a sequence of one-character strings.
Letras ==
    { "a", "b", "c", "d", "e", "f", "g", "h", "i", "j", "k", "l", "m",
      "n", "o", "p", "q", "r", "s", "t", "u", "v", "w", "x", "y", "z",
      "A", "B", "C", "D", "E", "F", "G", "H", "I", "J", "K", "L", "M",
      "N", "O", "P", "Q", "R", "S", "T", "U", "V", "W", "X", "Y", "Z" }

Cifras == << "0", "1", "2", "3", "4", "5", "6", "7", "8", "9" >>

\* The decimal digits of a natural number.
RECURSIVE Digitos(_)
Digitos(n) ==
    IF n < 10 THEN << Cifras[n + 1] >>
    ELSE Digitos(n \div 10) \o << Cifras[(n % 10) + 1] >>

Ceros(n) == [k \in 1..n |-> "0"]

\* The decimal exponent of a power of ten.
RECURSIVE Log10(_)
Log10(d) == IF d <= 1 THEN 0 ELSE 1 + Log10(d \div 10)

\* str(x) of a Python float, on the values of the model: whole numbers print
\* as digits and ".0"; m / 10^k with one digit m prints in positional
\* notation down to 0.0001 and in exponent notation ('1e-05') below it.
repr_float(celda) ==
    IF celda.d = 1 THEN Digitos(celda.v) \o << ".", "0" >>
    ELSE LET k == Log10(celda.d)
         IN  IF k > 4
             THEN Digitos(celda.v) \o << "e", "-" >>
                      \o (IF k < 10 THEN << "0" >> ELSE << >>) \o Digitos(k)
             ELSE << "0", "." >> \o Ceros(k - 1) \o Digitos(celda.v)

\* Line 434, astype(str) on one cell: a float gives its repr, NaN gives 'nan'
\* and an error object of the engine gives its message.
astype_str(celda) ==
    CASE celda.t = "num" -> repr_float(celda)
      [] celda.t = "nan" -> << "n", "a", "n" >>
      [] OTHER -> << "m", "i", "s", "s", "i", "n", "g" >>

\* Line 437, str.contains('[a-zA-Z]') on one text.
str_contains_letra(texto) == \E k \in 1..Len(texto) : texto[k] \in Letras

\* The number a run of decimal digits denotes.
RECURSIVE ValorDigitos(_)
ValorDigitos(texto) ==
    IF texto = << >> THEN 0
    ELSE 10 * ValorDigitos(SubSeq(texto, 1, Len(texto) - 1))
         + (CHOOSE n \in 0..9 : Cifras[n + 1] = texto[Len(texto)])

\* A fraction with a power-of-ten denominator, without common factors of ten.
RECURSIVE Normalizar(_, _)
Normalizar(v, d) ==
    IF d > 1 /\ v % 10 = 0 THEN Normalizar(v \div 10, d \div 10) ELSE Frac(v, d)

\* Line 443, astype(float) on one text without letters: digits, a point and
\* digits.
astype_float(texto) ==
    LET punto == CHOOSE k \in 1..Len(texto) : texto[k] = "."
        entera == SubSeq(texto, 1, punto - 1)
        decimales == SubSeq(texto, punto + 1, Len(texto))
        escala == Potencia10(Len(decimales))
    IN  Normalizar(ValorDigitos(entera) * escala + ValorDigitos(decimales), escala)

\* Lines 434-437 on one cell: the text of the cell holds a letter.
mascara_texto(celda) == str_contains_letra(astype_str(celda))

\* Lines 440-446 on one cell: masked cells become NaN, the rest floats, and
\* fillna puts "NA" in every NaN.
LimpiarCelda(celda) ==
    IF mascara_texto(celda) THEN NA ELSE astype_float(astype_str(celda))

LimpiarMatriz(matriz) ==
    DataFrame(matriz.columns,
              [i \in 1..Len(matriz.filas) |->
                  [c \in 1..Len(matriz.filas[i]) |-> LimpiarCelda(matriz.filas[i][c])]])

\* Line 429: the matrix the cleaning receives.
matriz_completa_descriptores ==
    concat_axis1(matriz_descriptores_2d, matriz_descriptores_estadisticos)

\* df_original: the input table, one text row per input line.
df_original ==
    DataFrame(<< "SMILES" >>, [i \in 1..Len(lista_smiles) |-> << Txt(i - 1) >>])

\* ------------------------------------------------------------------ actions
Init ==
    /\ pc = "cargar"
    /\ error = ""
    /\ lista_smiles \in UNION {[1..n -> ClasesSmiles] : n \in 1..MaxMoleculas}
    /\ numero_iteraciones \in 1..MaxIteraciones
    /\ descriptores_motor \in CatalogosMotor
    /\ moleculas_base = << >>
    /\ conformaciones_uff = << >>
    /\ indices_moleculas = << >>
    /\ descriptores_filtrados = << >>
    /\ resultados_descriptores = << >>
    /\ estadisticas_distribucion = << >>
    /\ nombres_columnas_finales = << >>
    /\ matriz_descriptores_estadisticos = DataFrameVacio
    /\ matriz_descriptores_2d = DataFrameVacio
    /\ matriz_numerica = DataFrameVacio
    /\ dataset_final = DataFrameVacio
    /\ fallos_embed = 0

\* Lines 36-43: read the table and parse every line notation.
CargarMoleculas ==
    /\ pc = "cargar"
    /\ moleculas_base' = [i \in 1..Len(lista_smiles) |->
                             MolFromSmiles(lista_smiles[i], i - 1)]
    /\ pc' = "conformaciones"
    /\ UNCHANGED << error, lista_smiles, numero_iteraciones, descriptores_motor,
                    conformaciones_uff, indices_moleculas, descriptores_filtrados,
                    resultados_descriptores, estadisticas_distribucion,
                    nombres_columnas_finales, matriz_descriptores_estadisticos,
                    matriz_descriptores_2d, matriz_numerica, dataset_final,
                    fallos_embed >>

\* Lines 196-199: the start-up generation.  Only the UFF list is read later
\* (line 208); the three distance-geometry lists are built and never read,
\* and they raise only where the UFF call before them has raised already.
GenerarConformaciones ==
    /\ pc = "conformaciones"
    /\ \E fallan \in FallosPosibles({"UFF"}) :
          LET uff == generar_conformacion_uff(moleculas_base, -1, fallan)
          IN  /\ IF uff.ok
                 THEN /\ conformaciones_uff' = uff.lista
                      /\ pc' = "configurar"
                      /\ error' = error
                 ELSE /\ conformaciones_uff' = conformaciones_uff
                      /\ pc' = "abortado"
                      /\ error' = uff.err
              /\ fallos_embed' = fallos_embed + Cardinality(fallan)
    /\ UNCHANGED << lista_smiles, numero_iteraciones, descriptores_motor,
                    moleculas_base, indices_moleculas, descriptores_filtrados,
                    resultados_descriptores, estadisticas_distribucion,
                    nombres_columnas_finales, matriz_descriptores_estadisticos,
                    matriz_descriptores_2d, matriz_numerica, dataset_final >>

\* Lines 206-280: the molecule indices and the filtered descriptor set.
ConfigurarCalculador ==
    /\ pc = "configurar"
    /\ indices_moleculas' = RangoIndices(conformaciones_uff)
    /\ descriptores_filtrados' =
           FiltrarDescriptores(descriptores_motor, nombres_descriptores_3d)
    /\ pc' = "iterar"
    /\ UNCHANGED << error, lista_smiles, numero_iteraciones, descriptores_motor,
                    moleculas_base, conformaciones_uff, resultados_descriptores,
                    estadisticas_distribucion, nombres_columnas_finales,
                    matriz_descriptores_estadisticos, matriz_descriptores_2d,
                    matriz_numerica, dataset_final, fallos_embed >>

\* Lines 294-324: one pass of the iteration loop, six generator calls and
\* five concatenations.
Iteracion ==
    /\ pc = "iterar"
    /\ Len(resultados_descriptores) < numero_iteraciones
    /\ \E fallan \in FallosPosibles({Metodos[k] : k \in 1..Len(Metodos)}) :
          LET iteracion == Len(resultados_descriptores)
              lanzan == {k \in 1..Len(Metodos) :
                            ~ResultadoMetodo(k, iteracion, fallan).ok}
          IN  /\ IF lanzan = {}
                 THEN /\ resultados_descriptores' =
                             Append(resultados_descriptores,
                                    TablaIteracion(Len(Metodos), iteracion, fallan))
                      /\ pc' = pc
                      /\ error' = error
                 ELSE /\ resultados_descriptores' = resultados_descriptores
                      /\ pc' = "abortado"
                      /\ error' = ResultadoMetodo(Primero(lanzan), iteracion, fallan).err
              /\ fallos_embed' = fallos_embed + Cardinality(fallan)
    /\ UNCHANGED << lista_smiles, numero_iteraciones, descriptores_motor,
                    moleculas_base, conformaciones_uff, indices_moleculas,
                    descriptores_filtrados, estadisticas_distribucion,
                    nombres_columnas_finales, matriz_descriptores_estadisticos,
                    matriz_descriptores_2d, matriz_numerica, dataset_final >>

\* Line 329: the example print reads resultados_descriptores[1].
MostrarResultados ==
    /\ pc = "iterar"
    /\ Len(resultados_descriptores) = numero_iteraciones
    /\ IF 1 < Len(resultados_descriptores)
       THEN pc' = "reducir" /\ error' = error
       ELSE pc' = "abortado" /\ error' = "KeyError:329"
    /\ UNCHANGED << lista_smiles, numero_iteraciones, descriptores_motor,
                    moleculas_base, conformaciones_uff, indices_moleculas,
                    descriptores_filtrados, resultados_descriptores,
                    estadisticas_distribucion, nombres_columnas_finales,
                    matriz_descriptores_estadisticos, matriz_descriptores_2d,
                    matriz_numerica, dataset_final, fallos_embed >>

\* Lines 341-352: one pass of the reducer loop, for the next molecule index.
ReducirMolecula ==
    /\ pc = "reducir"
    /\ Len(estadisticas_distribucion) < Len(indices_moleculas)
    /\ LET indice_molecula == indices_moleculas[Len(estadisticas_distribucion) + 1]
       IN  IF IlocEnRango(indice_molecula)
           THEN /\ estadisticas_distribucion' =
                       Append(estadisticas_distribucion,
                              estadisticas_molecula(indice_molecula))
                /\ pc' = pc
                /\ error' = error
           ELSE /\ estadisticas_distribucion' = estadisticas_distribucion
                /\ pc' = "abortado"
                /\ error' = "IndexError:348"
    /\ UNCHANGED << lista_smiles, numero_iteraciones, descriptores_motor,
                    moleculas_base, conformaciones_uff, indices_moleculas,
                    descriptores_filtrados, resultados_descriptores,
                    nombres_columnas_finales, matriz_descriptores_estadisticos,
                    matriz_descriptores_2d, matriz_numerica, dataset_final,
                    fallos_embed >>

\* Line 357: the example print reads estadisticas_distribucion[2].
MostrarEstadisticas ==
    /\ pc = "reducir"
    /\ Len(estadisticas_distribucion) = Len(indices_moleculas)
    /\ IF 2 < Len(estadisticas_distribucion)
       THEN pc' = "nombrar" /\ error' = error
       ELSE pc' = "abortado" /\ error' = "KeyError:357"
    /\ UNCHANGED << lista_smiles, numero_iteraciones, descriptores_motor,
                    moleculas_base, conformaciones_uff, indices_moleculas,
                    descriptores_filtrados, resultados_descriptores,
                    estadisticas_distribucion, nombres_columnas_finales,
                    matriz_descriptores_estadisticos, matriz_descriptores_2d,
                    matriz_numerica, dataset_final, fallos_embed >>

\* Lines 366-376: the column names, from the summary of the molecule at
\* index 1.
NombrarColumnas ==
    /\ pc = "nombrar"
    /\ IF 1 < Len(estadisticas_distribucion)
       THEN /\ nombres_columnas_finales' = GenerarNombres(estadisticas_distribucion[2])
            /\ pc' = "construir"
            /\ error' = error
       ELSE /\ nombres_columnas_finales' = nombres_columnas_finales
            /\ pc' = "abortado"
            /\ error' = "KeyError:366"
    /\ UNCHANGED << lista_smiles, numero_iteraciones, descriptores_motor,
                    moleculas_base, conformaciones_uff, indices_moleculas,
                    descriptores_filtrados, resultados_descriptores,
                    estadisticas_distribucion, matriz_descriptores_estadisticos,
                    matriz_descriptores_2d, matriz_numerica, dataset_final,
                    fallos_embed >>

\* Lines 383-398: one pass of the matrix loop, for the next molecule index.
ConstruirFila ==
    /\ pc = "construir"
    /\ Len(matriz_descriptores_estadisticos.filas) < Len(indices_moleculas)
    /\ LET indice_molecula ==
               indices_moleculas[Len(matriz_descriptores_estadisticos.filas) + 1]
       IN  IF IlocEnRango(indice_molecula)
           THEN /\ matriz_descriptores_estadisticos' =
                       AgregarFila(matriz_descriptores_estadisticos,
                                   fila_estadisticas(estadisticas_molecula(indice_molecula)))
                /\ pc' = pc
                /\ error' = error
           ELSE /\ matriz_descriptores_estadisticos' = matriz_descriptores_estadisticos
                /\ pc' = "abortado"
                /\ error' = "IndexError:388"
    /\ UNCHANGED << lista_smiles, numero_iteraciones, descriptores_motor,
                    moleculas_base, conformaciones_uff, indices_moleculas,
                    descriptores_filtrados, resultados_descriptores,
                    estadisticas_distribucion, nombres_columnas_finales,
                    matriz_descriptores_2d, matriz_numerica, dataset_final,
                    fallos_embed >>

\* Line 401: the names become the matrix's columns; pandas raises when the
\* matrix has another number of columns than there are names.
AsignarColumnas ==
    /\ pc = "construir"
    /\ Len(matriz_descriptores_estadisticos.filas) = Len(indices_moleculas)
    /\ IF Len(nombres_columnas_finales) = Len(matriz_descriptores_estadisticos.columns)
       THEN /\ matriz_descriptores_estadisticos' =
                   DataFrame(nombres_columnas_finales,
                             matriz_descriptores_estadisticos.filas)
            /\ pc' = "calcular2d"
            /\ error' = error
       ELSE /\ matriz_descriptores_estadisticos' = matriz_descriptores_estadisticos
            /\ pc' = "abortado"
            /\ error' = "ValueError:401"
    /\ UNCHANGED << lista_smiles, numero_iteraciones, descriptores_motor,
                    moleculas_base, conformaciones_uff, indices_moleculas,
                    descriptores_filtrados, resultados_descriptores,
                    estadisticas_distribucion, nombres_columnas_finales,
                    matriz_descriptores_2d, matriz_numerica, dataset_final,
                    fallos_embed >>

\* Lines 412-418: the 2D descriptors of every input molecule.
Calcular2D ==
    /\ pc = "calcular2d"
    /\ \E slogp \in Celdas2D :
           matriz_descriptores_2d' = calculador_2d_pandas(moleculas_base, slogp)
    /\ pc' = "limpiar"
    /\ UNCHANGED << error, lista_smiles, numero_iteraciones, descriptores_motor,
                    moleculas_base, conformaciones_uff, indices_moleculas,
                    descriptores_filtrados, resultados_descriptores,
                    estadisticas_distribucion, nombres_columnas_finales,
                    matriz_descriptores_estadisticos, matriz_numerica,
                    dataset_final, fallos_embed >>

\* Lines 429-446: join the 2D and the statistical matrix and clean the cells.
CombinarYLimpiar ==
    /\ pc = "limpiar"
    /\ matriz_numerica' = LimpiarMatriz(matriz_completa_descriptores)
    /\ pc' = "exportar"
    /\ UNCHANGED << error, lista_smiles, numero_iteraciones, descriptores_motor,
                    moleculas_base, conformaciones_uff, indices_moleculas,
                    descriptores_filtrados, resultados_descriptores,
                    estadisticas_distribucion, nombres_columnas_finales,
                    matriz_descriptores_estadisticos, matriz_descriptores_2d,
                    dataset_final, fallos_embed >>

\* Lines 457-461: join with the input table and export.
Exportar ==
    /\ pc = "exportar"
    /\ dataset_final' = concat_axis1(df_original, matriz_numerica)
    /\ pc' = "fin"
    /\ UNCHANGED << error, lista_smiles, numero_iteraciones, descriptores_motor,
                    moleculas_base, conformaciones_uff, indices_moleculas,
                    descriptores_filtrados, resultados_descriptores,
                    estadisticas_distribucion, nombres_columnas_finales,
                    matriz_descriptores_estadisticos, matriz_descriptores_2d,
                    matriz_numerica, fallos_embed >>

Next ==
    \/ CargarMoleculas
    \/ GenerarConformaciones
    \/ ConfigurarCalculador
    \/ Iteracion
    \/ MostrarResultados
    \/ ReducirMolecula
    \/ MostrarEstadisticas
    \/ NombrarColumnas
    \/ ConstruirFila
    \/ AsignarColumnas
    \/ Calcular2D
    \/ CombinarYLimpiar
    \/ Exportar

Spec == Init /\ [][Next]_vars

\* ------------------------------------------------------------------- claims
Abortado == pc = "abortado"

MatrizNombrada == pc \in {"calcular2d", "limpiar", "exportar", "fin"}

NombresGenerados == pc \in {"construir", "calcular2d", "limpiar", "exportar", "fin"}

Columna(tabla, nombre) == CHOOSE c \in 1..Len(tabla.columns) : tabla.columns[c] = nombre

TieneColumna(tabla, nombre) == \E c \in 1..Len(tabla.columns) : tabla.columns[c] = nombre

Descartada(mol, metodo) ==
    \/ metodo = "UFF" /\ ~UFFHasAllMoleculeParams(mol)
    \/ metodo = "MMFF" /\ ~MMFFHasAllMoleculeParams(mol)

\* C1 (as claimed): in every repetition's table, the row of a molecule that
\* UFF or MMFF dropped is missing in that method's suffixed columns, and the
\* row of every molecule that was kept holds, in those columns, the values
\* computed from that molecule's own conformer; and the summary of a reduced
\* molecule that UFF dropped is all-missing in its _DGuff columns.
C1_FilasAlineadasPorMolecula ==
    /\ \A it \in 1..Len(resultados_descriptores) :
         \A metodo \in {"UFF", "MMFF"} :
           \A d \in 1..Len(descriptores_filtrados) :
             \A j \in 1..Len(moleculas_base) :
               LET tabla == resultados_descriptores[it]
                   c == Columna(tabla, descriptores_filtrados[d] \o Sufijo(metodo))
                   propia == [mol |-> j - 1, metodo |-> metodo, rep |-> it - 1,
                              emb |-> TRUE]
               IN  IF Descartada(moleculas_base[j], metodo)
                   THEN tabla.filas[j][c] = NaN
                   ELSE tabla.filas[j][c] = Num(Valor(propia, d))
    /\ \A k \in 1..Len(estadisticas_distribucion) :
         \A d \in 1..Len(descriptores_filtrados) :
           LET tabla == estadisticas_distribucion[k]
               nombre == descriptores_filtrados[d] \o Sufijo("UFF")
           IN  Descartada(moleculas_base[indices_moleculas[k] + 1], "UFF")
                 => /\ TieneColumna(tabla, nombre)
                    /\ \A s \in 1..Len(tabla.index) :
                         tabla.filas[s][Columna(tabla, nombre)] = NaN

EsOrdenada(celdas) ==
    \A a, b \in 1..Len(celdas) : a <= b => celdas[a].v * celdas[b].d <= celdas[b].v * celdas[a].d

C3_UnaFilaPorMolecula ==
    MatrizNombrada =>
        Len(matriz_descriptores_estadisticos.filas) = Len(lista_smiles)

C5_ParseoFallidoNoAborta ==
    (\E i \in 1..Len(lista_smiles) : lista_smiles[i] = "invalido") => ~Abortado

\* The statistic labels the reducer emits, the name of a triple.
EtiquetasEmitidas == Rebanar([index |-> IndiceDescribe, columns |-> << >>,
                              filas |-> IndiceDescribe], 3).index

NombreDeTriple(t) == EtiquetasEmitidas[t[1]] \o descriptores_filtrados[t[2]] \o Sufijo(Metodos[t[3]])

Triples == (1..Len(EtiquetasEmitidas)) \X (1..Len(descriptores_filtrados)) \X (1..Len(Metodos))

\* C6: two different (statistic, descriptor, method) triples never get the
\* same column name, no name occurs twice in the generated list, and every
\* generated name is the name of a triple.
C6_NombresInyectivos ==
    NombresGenerados =>
        /\ Cardinality({NombreDeTriple(t) : t \in Triples}) = Cardinality(Triples)
        /\ Cardinality({nombres_columnas_finales[p] :
                           p \in 1..Len(nombres_columnas_finales)})
              = Len(nombres_columnas_finales)
        /\ \A p \in 1..Len(nombres_columnas_finales) :
              nombres_columnas_finales[p] \in {NombreDeTriple(t) : t \in Triples}

\* C6 witness: the names of two descriptors, one a prefix of the other, under
\* all six methods.
C6_Testigo ==
    /\ NombresGenerados
    /\ Len(nombres_columnas_finales) = Cardinality(Triples)
    /\ Len(descriptores_filtrados) = 2

ConteoValidos(indice_molecula, c) ==
    Len(ValoresValidos(valores_molecula(indice_molecula), c))

ReduccionTerminada == pc \in {"nombrar", "construir", "calcular2d", "limpiar", "exportar", "fin"}

PosicionesPermitidas ==
    {i \in 1..Len(descriptores_motor) : EnLista(descriptores_motor[i], nombres_descriptores_3d)}

Resuelto == pc \notin {"cargar", "conformaciones", "configurar", "abortado"}

\* C8: the resolved list holds exactly the engine's descriptors whose name is
\* allow-listed, each once, in the engine's order; resolving the pair again,
\* or resolving the resolved list, gives the same list.
C8_ResolucionDelCatalogo ==
    Resuelto =>
        /\ Len(descriptores_filtrados) = Cardinality(PosicionesPermitidas)
        /\ \A k \in 1..Len(descriptores_filtrados) :
              \E i \in PosicionesPermitidas :
                 /\ descriptores_filtrados[k] = descriptores_motor[i]
                 /\ Cardinality({j \in PosicionesPermitidas : j < i}) = k - 1
        /\ FiltrarDescriptores(descriptores_motor, nombres_descriptores_3d)
              = descriptores_filtrados
        /\ FiltrarDescriptores(descriptores_filtrados, nombres_descriptores_3d)
              = descriptores_filtrados

\* C8 witness: a resolution that left out an engine descriptor the allow-list
\* lacks and kept two in the engine's order, the reverse of the allow-list's.
C8_Testigo ==
    /\ Resuelto
    /\ descriptores_filtrados = << "GRAVH", "GRAV" >>
    /\ Len(descriptores_motor) > Len(descriptores_filtrados)

\* C9 (as claimed): every row of the statistical matrix has the layout of
\* the name list: the value at p is, for the row's molecule, the statistic s
\* of the column c with name(p) = label(s) + label(c).
C9_FilasConElDisenoDeLosNombres ==
    MatrizNombrada =>
        \A i \in 1..Len(matriz_descriptores_estadisticos.filas) :
           LET referencia == estadisticas_distribucion[2]
               S == Len(referencia.index)
               tabla == estadisticas_molecula(indices_moleculas[i])
               fila == matriz_descriptores_estadisticos.filas[i]
           IN  /\ Len(fila) = Len(nombres_columnas_finales)
               /\ \A p \in 1..Len(nombres_columnas_finales) :
                     LET s == ((p - 1) % S) + 1
                         nombre == referencia.columns[((p - 1) \div S) + 1]
                     IN  /\ nombres_columnas_finales[p] = referencia.index[s] \o nombre
                         /\ TieneColumna(tabla, nombre)
                         /\ tabla.index[s] = referencia.index[s]
                         /\ fila[p] = tabla.filas[s][Columna(tabla, nombre)]

\* C10 (as claimed): with every molecule parsed, parameterised and embedded,
\* the run does not crash, whatever N >= 1 and the number of molecules >= 1.
C10_SinFallosNoAborta ==
    ((\A i \in 1..Len(lista_smiles) : lista_smiles[i] = "ok") /\ fallos_embed = 0)
        => ~Abortado


\* Two cells hold the same floating-point value.
MismoValor(a, b) == a.t = "num" /\ b.t = "num" /\ a.v * b.d = b.v * a.d

\* C11: once the cleaning has run, every cell of the combined matrix that
\* holds a number is in the numeric output as that same floating-point value
\* whatever its text looks like, every missing cell is the marker "NA", and a
\* cell is taken out of the numeric output only when it is missing or holds an
\* error token of the descriptor engine.
C11_LimpiezaConservaNumeros ==
    pc \in {"exportar", "fin"} =>
        /\ matriz_numerica.columns = matriz_completa_descriptores.columns
        /\ Len(matriz_numerica.filas) = Len(matriz_completa_descriptores.filas)
        /\ \A i \in 1..Len(matriz_completa_descriptores.filas) :
               \A c \in 1..Len(matriz_completa_descriptores.filas[i]) :
                   LET celda == matriz_completa_descriptores.filas[i][c]
                       limpia == matriz_numerica.filas[i][c]
                   IN  /\ celda.t = "num" => MismoValor(limpia, celda)
                       /\ celda.t = "nan" => limpia = NA
                       /\ limpia = NA => celda.t \in {"nan", "err"}

====
